---- MODULE Spec2Model ----
(***************************************************************************)
(* V2T: recording-session controller (MainWindow / HomePage), the audio    *)
(* recorder with its sounddevice stream and capture callback, and the      *)
(* transcription worker with the Groq and Whisper backends.                *)
(*                                                                         *)
(* Threads: the Qt main thread runs the handlers of MainWindow; each       *)
(* running input stream has a PortAudio thread running _audio_callback;    *)
(* one daemon thread runs the transcribe() closure of _start_transcription.*)
(* The main thread is cut at the places where AudioRecorder.start() and    *)
(* stop() release the recorder lock, so that callbacks interleave there.   *)
(***************************************************************************)
EXTENDS Integers, Sequences, FiniteSets, TLC

(* ------------------------------ bounds --------------------------------- *)
MaxStreams == 2      \* input streams that can exist at the same time
MaxBlocks == 2       \* blocks delivered while one session records
MaxPending == 2      \* queued hotkey_changed emissions

(* ------------------------- program constants --------------------------- *)
SilenceLimit == 3    \* AudioRecorder._silence_limit, seconds (one tick = 1 s)
CaptureTimeout == 5  \* wait_for_key(timeout=5.0), seconds (one tick = 1 s)

Streams == 1..MaxStreams
NoStream == 0
NoBlock == <<>>                  \* no callback is running on the stream
Messages == {"", "err"}          \* str(e) of a raised exception
NoError == "none"                \* TranscriptionResult.error = None
NoResult == [made |-> FALSE, raised |-> FALSE, success |-> FALSE, error |-> NoError,
             is_online |-> FALSE]

VARIABLES
    mw_is_recording,        \* MainWindow._is_recording
    mw_is_transcribing,     \* MainWindow._is_transcribing
    hp_is_recording,        \* HomePage._is_recording
    hp_is_transcribing,     \* HomePage._is_transcribing
    hp_status,              \* HomePage._status_label, by the text it shows
    pc,                     \* where the main thread is: "idle" = event loop
    rec_is_recording,       \* AudioRecorder._is_recording
    rec_frames,             \* AudioRecorder._frames
    rec_stream,             \* AudioRecorder._stream (NoStream = None)
    streams,                \* sounddevice: state of every InputStream
    delivered,              \* per stream: blocks delivered while recording, this session
    cb,                     \* per stream: block held by a running _audio_callback
    audio_data,             \* value returned by the last AudioRecorder.stop()
    stop_path,              \* how the last AudioRecorder.stop() returned
    start_ret,              \* value returned by the last AudioRecorder.start()
    open_attempts,          \* sd.InputStream(...) calls made by the last start()
    toggle_seen,            \* kind of the last toggle, if it met Transcribing
    locked,                 \* rows stored under the lock this session, in lock order
    silence_elapsed,        \* seconds of continuous silence in this session
    silence_detection_enabled, \* settings["silence_detection_enabled"]
    use_online,             \* settings["use_online"]
    auto_paste,             \* settings["auto_paste"]
    api_key,                \* GroqTranscriber._api_key is set
    wpc,                    \* where the transcription worker thread is
    w_choice,               \* <<use_online, is_available()>> as the worker read them
    w_calls,                \* backends the worker has called for this request
    w_result,               \* TranscriptionResult the backend returned
    w_saved,                \* storage.save completed for this request
    w_pasted,               \* ctrl+v was sent for this request
    model_loaded,           \* WhisperTranscriber._model_loaded
    model_loading,          \* WhisperTranscriber._model_loading
    load_error,             \* WhisperTranscriber._load_error
    lpc,                    \* where the thread started by load_async() is
    hk_active,              \* HotkeyManager._active_keys
    kb_hotkeys,             \* hotkeys the keyboard library listens for
    hk_setting,             \* settings["hotkey"]
    capturing,              \* SettingsPage._capturing_hotkey
    cpc,                    \* where the capture thread is
    capture_elapsed,        \* seconds the capture thread has waited for a key
    capture_threads,        \* capture threads that have not reached their end
    hc_queue,               \* queued hotkey_changed emissions
    hk_update,              \* the last update_hotkey call and what it returned
    hk_fired,               \* the last hotkey press that called _emit_hotkey_signal
    lg_key_down,            \* legacy service: the hotkey is physically held down
    lg_prev_pressed,        \* hotkey_loop: prev_pressed
    lg_is_rec,              \* hotkey_loop: is_rec
    lg_stream,              \* hotkey_loop: rec_stream, by the device it was opened on
    lg_frames,              \* hotkey_loop: len(frames)
    lg_pc,                  \* where hotkey_loop is
    lg_toggles,             \* toggles since the hotkey was last pressed down
    lg_pasted,              \* hotkey_loop: the last transcription gave text to paste
    st_settings,            \* SettingsManager._settings, two of its keys
    st_file,                \* the table in the JSON file CONFIG_FILE
    st_payload,             \* per thread: payload copied by its running save()
    st_pc,                  \* per thread: where its SettingsManager.set call is
    tc_queue,               \* queued _transcription_complete emissions
    reset_timer             \* a QTimer.singleShot(3000, ...) is pending

ctlVars == <<mw_is_recording, mw_is_transcribing, hp_is_recording, hp_is_transcribing,
             hp_status>>
recVars == <<rec_is_recording, rec_frames, rec_stream>>
sdVars == <<streams, delivered, cb>>
retVars == <<audio_data, stop_path, start_ret, open_attempts>>
ghostVars == <<locked>>
setVars == <<silence_detection_enabled, use_online, auto_paste, api_key>>
whisperVars == <<model_loaded, model_loading, load_error>>
loaderVars == <<lpc>>
hkVars == <<hk_active, kb_hotkeys, hk_setting, capturing, cpc, capture_elapsed,
            capture_threads, hc_queue, hk_update, hk_fired>>
legacyVars == <<lg_key_down, lg_prev_pressed, lg_is_rec, lg_stream, lg_frames, lg_pc,
                lg_toggles, lg_pasted>>
storeVars == <<st_settings, st_file, st_payload, st_pc>>
extVars == <<hkVars, legacyVars, storeVars>>
workVars == <<wpc, w_choice, w_calls, w_result, w_saved, w_pasted>>
vars == <<ctlVars, pc, recVars, sdVars, retVars, toggle_seen, ghostVars, silence_elapsed,
          setVars, whisperVars, loaderVars, workVars, tc_queue, reset_timer,
          extVars>>

(* --------------------------- helpers ----------------------------------- *)
\* The controller state of the specification, read off MainWindow's flags.
CtlState ==
    IF mw_is_transcribing THEN "Transcribing"
    ELSE IF mw_is_recording THEN "Recording" ELSE "Idle"

\* A stream holds the device from its construction until close() returns.
OpenStreams == {s \in Streams : streams[s] \in {"open", "active", "stopped"}}

FreeStreams == {s \in Streams : streams[s] = "none"}

(* --------------------------- HotkeyManager ----------------------------- *)
Keys == {"F8", "F9", "F10", "bad"}   \* hotkey names
BadKeys == {"bad"}               \* names keyboard.add_hotkey cannot parse
DefaultHotkey == "F8"            \* settings.get("hotkey", "F8")
NoKey == "none"
NoUpdate == [called |-> FALSE, old |-> NoKey, new |-> NoKey, ret |-> FALSE,
             old_was_active |-> FALSE]
NoFire == [key |-> NoKey, capturing |-> FALSE]

\* Threads that call SettingsManager.set: the hotkey capture thread and the
\* Qt main thread.
SetThreads == {"capture", "ui"}
NoPayload == <<>>

\* A manager state m is [active |-> _active_keys, kb |-> the library's hotkeys].
NoHotkeys == [active |-> {}, kb |-> {}]

\* An unregister that forgets to remove anything.
UnregisterNothing(m, h) == [m |-> m, ret |-> TRUE]

\* HotkeyManager.unregister: keyboard.remove_hotkey raises KeyError for a
\* hotkey the library does not have.
Unregister(m, h) ==
    IF h \in m.active
    THEN IF h \notin m.kb
         THEN [m |-> m, ret |-> FALSE]
         ELSE [m |-> [active |-> m.active \ {h}, kb |-> m.kb \ {h}], ret |-> TRUE]
    ELSE [m |-> m, ret |-> TRUE]

\* HotkeyManager.register: keyboard.add_hotkey raises ValueError for a name
\* it cannot parse.
Register(m, h) ==
    IF h \in m.active /\ h \notin m.kb
    THEN [m |-> m, ret |-> FALSE]
    ELSE IF h \in BadKeys
         THEN [m |-> [active |-> m.active, kb |-> m.kb \ {h}], ret |-> FALSE]
         ELSE [m |-> [active |-> m.active \cup {h}, kb |-> m.kb \cup {h}],
               ret |-> TRUE]

\* HotkeyManager.update_hotkey
UpdateHotkey(m, old, new) == Register(Unregister(m, old).m, new)

\* An unregister_all that clears the tables and leaves the library alone.
UnregisterAllTablesOnly(m) == [active |-> {}, kb |-> m.kb]

\* HotkeyManager.unregister_all: remove_hotkey for every active key, errors
\* swallowed, then both tables are cleared.
UnregisterAll(m) == [active |-> {}, kb |-> m.kb \ m.active]

(* ----------------------------- Init ------------------------------------ *)
Init ==
    /\ mw_is_recording = FALSE
    /\ mw_is_transcribing = FALSE
    /\ hp_is_recording = FALSE
    /\ hp_is_transcribing = FALSE
    /\ hp_status = "prompt"
    /\ pc = "idle"
    /\ rec_is_recording = FALSE
    /\ rec_frames = <<>>
    /\ rec_stream = NoStream
    /\ streams = [s \in Streams |-> "none"]
    /\ delivered = [s \in Streams |-> 0]
    /\ cb = [s \in Streams |-> NoBlock]
    /\ audio_data = <<>>
    /\ stop_path = "none"
    /\ start_ret = "none"
    /\ open_attempts = 0
    /\ toggle_seen = "none"
    /\ locked = <<>>
    /\ silence_elapsed = 0
    /\ silence_detection_enabled = FALSE
    /\ use_online \in BOOLEAN
    /\ auto_paste \in BOOLEAN
    /\ api_key \in BOOLEAN
    /\ wpc = "none"
    /\ w_choice = <<>>
    /\ w_calls = <<>>
    /\ w_result = NoResult
    /\ w_saved = FALSE
    /\ w_pasted = FALSE
    /\ model_loaded = FALSE
    /\ model_loading = FALSE
    /\ load_error = NoError
    /\ lpc = "none"
    /\ hk_setting = DefaultHotkey
    /\ hk_active = Register(NoHotkeys, DefaultHotkey).m.active
    /\ kb_hotkeys = Register(NoHotkeys, DefaultHotkey).m.kb
    /\ capturing = FALSE
    /\ cpc = "none"
    /\ capture_elapsed = 0
    /\ capture_threads = 0
    /\ hc_queue = <<>>
    /\ hk_update = NoUpdate
    /\ hk_fired = NoFire
    /\ lg_key_down = FALSE
    /\ lg_prev_pressed = FALSE
    /\ lg_is_rec = FALSE
    /\ lg_stream = "none"
    /\ lg_frames = 0
    /\ lg_pc = "poll"
    /\ lg_toggles = 0
    /\ lg_pasted = FALSE
    /\ st_settings = [hotkey |-> DefaultHotkey, auto_paste |-> TRUE]
    /\ st_file = [hotkey |-> DefaultHotkey, auto_paste |-> TRUE]
    /\ st_payload = [t \in SetThreads |-> NoPayload]
    /\ st_pc = [t \in SetThreads |-> "idle"]
    /\ tc_queue = <<>>
    /\ reset_timer = FALSE

(* ------------------------ AudioRecorder -------------------------------- *)
\* One block handed to the callback: an array of rows, here one row that
\* names the stream and the position of the block in that stream.
Block(s, k) == << <<s, k>> >>

\* Concatenation that puts the newest block first.
RECURSIVE ConcatenateNewestFirst(_)
ConcatenateNewestFirst(fs) ==
    IF fs = <<>> THEN <<>> ELSE ConcatenateNewestFirst(Tail(fs)) \o Head(fs)

\* np.concatenate(self._frames, axis=0)
RECURSIVE Concatenate(_)
Concatenate(fs) ==
    IF fs = <<>> THEN <<>> ELSE Head(fs) \o Concatenate(Tail(fs))

\* AudioRecorder.start(), up to the release of the lock.
RecorderStart ==
    IF rec_is_recording
    THEN /\ start_ret' = "true"
         /\ open_attempts' = 0
         /\ UNCHANGED <<pc, recVars, audio_data, stop_path, ghostVars>>
    ELSE /\ rec_frames' = <<>>
         /\ rec_is_recording' = TRUE
         /\ pc' = "start_open"
         /\ start_ret' = "none"
         /\ open_attempts' = 0
         /\ stop_path' = "none"
         /\ locked' = <<>>
         /\ audio_data' = <<>>
         /\ UNCHANGED rec_stream

\* The stream id the next sd.InputStream(...) gets.
NewStream == CHOOSE s \in FreeStreams : \A t \in FreeStreams : s <= t

\* AudioRecorder.start(): sd.InputStream(...) is constructed, or raises.
StartOpen ==
    /\ pc = "start_open"
    /\ open_attempts' = open_attempts + 1
    /\ \/ /\ FreeStreams # {}
          /\ streams' = [streams EXCEPT ![NewStream] = "open"]
          /\ UNCHANGED delivered
          /\ rec_stream' = NewStream
          /\ pc' = "start_run"
          /\ UNCHANGED <<rec_is_recording, start_ret>>
       \/ /\ rec_is_recording' = FALSE
          /\ start_ret' = "false"
          /\ pc' = "idle"
          /\ UNCHANGED <<streams, delivered, rec_stream>>
    /\ UNCHANGED <<ctlVars, rec_frames, cb, audio_data, stop_path, toggle_seen,
                   ghostVars, silence_elapsed, setVars, whisperVars, loaderVars, extVars, workVars,
                   tc_queue, reset_timer>>

\* AudioRecorder.start(): self._stream.start() returns, or raises.
StartRun ==
    /\ pc = "start_run"
    /\ \/ /\ streams' = [streams EXCEPT ![rec_stream] = "active"]
          /\ start_ret' = "true"
          /\ UNCHANGED rec_is_recording
       \/ /\ rec_is_recording' = FALSE
          /\ start_ret' = "false"
          /\ UNCHANGED streams
    /\ pc' = "idle"
    /\ UNCHANGED <<ctlVars, rec_frames, rec_stream, delivered, cb, audio_data,
                   stop_path, open_attempts, toggle_seen, ghostVars, silence_elapsed, setVars,
                   whisperVars, loaderVars, extVars, workVars, tc_queue, reset_timer>>

\* Blocks delivered to the callback while recording, this session, all streams.
RECURSIVE SumTo(_, _)
SumTo(f, n) == IF n = 0 THEN 0 ELSE f[n] + SumTo(f, n - 1)

DeliveredTotal == SumTo(delivered, MaxStreams)

\* AudioRecorder._audio_callback is entered with a new block (indata.copy()).
\* A callback that is entered while nothing is recording either drops its
\* block, which changes nothing, or reaches the lock after the next start()
\* has set the flag, which leaves the recorder as a callback entered after
\* that does: so only callbacks entered while recording are steps.
CbReceive(s) ==
    /\ streams[s] = "active"
    /\ cb[s] = NoBlock
    /\ rec_is_recording
    /\ DeliveredTotal < MaxBlocks
    /\ delivered' = [delivered EXCEPT ![s] = @ + 1]
    /\ cb' = [cb EXCEPT ![s] = <<delivered[s] + 1>>]
    /\ UNCHANGED <<ctlVars, pc, recVars, streams, retVars, toggle_seen, locked,
                   silence_elapsed, setVars, whisperVars, loaderVars, extVars, workVars, tc_queue,
                   reset_timer>>

\* AudioRecorder._audio_callback: the section under self._lock.
CbStore(s) ==
    /\ cb[s] # NoBlock
    /\ IF rec_is_recording
       THEN /\ rec_frames' = Append(rec_frames, Block(s, cb[s][1]))
            /\ locked' = locked \o Block(s, cb[s][1])
       ELSE UNCHANGED <<rec_frames, locked>>
    /\ cb' = [cb EXCEPT ![s] = NoBlock]
    /\ UNCHANGED <<ctlVars, pc, rec_is_recording, rec_stream, streams, delivered,
                   retVars, toggle_seen, silence_elapsed, setVars,
                   whisperVars, loaderVars, extVars, workVars, tc_queue, reset_timer>>

(* ------------------------- MainWindow ---------------------------------- *)
\* MainWindow._start_transcription: the worker thread is started.
StartTranscription ==
    /\ wpc' = "save"
    /\ w_choice' = <<>>
    /\ w_calls' = <<>>
    /\ w_result' = NoResult
    /\ w_saved' = FALSE
    /\ w_pasted' = FALSE

\* A handler that transcribes whatever stop() returned.
AfterStopAlways(a) ==
    /\ mw_is_transcribing' = TRUE
    /\ hp_is_transcribing' = TRUE
    /\ hp_status' = "transcribing"
    /\ StartTranscription

\* The texts HomePage puts on its status label: "Appuyez pour enregistrer",
\* "Enregistrement en cours...", "Transcription en cours...", "Transcription
\* terminée (Copié !)" and "Erreur: ...".
StatusTexts == {"prompt", "recording", "transcribing", "done", "error"}

\* The status label after HomePage.set_recording(r).
StatusAfterSetRecording(r) ==
    IF r THEN "recording"
    ELSE IF ~hp_is_transcribing THEN "prompt" ELSE hp_status

\* MainWindow._stop_recording, after AudioRecorder.stop() returned a. With no
\* audio only the waveform is set idle: the label stays as set_recording(False)
\* left it.
AfterStop(a) ==
    IF Len(a) > 0
    THEN /\ mw_is_transcribing' = TRUE
         /\ hp_is_transcribing' = TRUE
         /\ hp_status' = "transcribing"
         /\ StartTranscription
    ELSE /\ hp_status' = StatusAfterSetRecording(FALSE)
         /\ UNCHANGED <<mw_is_transcribing, hp_is_transcribing, workVars>>

\* The guard of MainWindow._start_recording.
StartRefused == mw_is_recording \/ mw_is_transcribing

\* MainWindow._start_recording; h is HomePage._is_recording as the caller left
\* it: it differs from the field when the home page has just called
\* set_recording(h) for a click.
StartRecording(h) ==
    /\ UNCHANGED <<mw_is_transcribing, hp_is_transcribing>>
    /\ IF StartRefused
       THEN /\ hp_is_recording' = h
            /\ hp_status' = IF h # hp_is_recording THEN StatusAfterSetRecording(h)
                            ELSE hp_status
            /\ UNCHANGED <<mw_is_recording, pc, recVars, retVars, ghostVars,
                           silence_elapsed, workVars>>
       ELSE /\ mw_is_recording' = TRUE
            /\ hp_is_recording' = TRUE
            /\ hp_status' = "recording"
            /\ silence_elapsed' = 0
            /\ UNCHANGED <<wpc, w_choice, w_calls, w_result, w_saved, w_pasted>>
            /\ RecorderStart

\* A _stop_recording that leaves MainWindow._is_recording set.
StopRecordingKeepsFlag(h) ==
    IF ~mw_is_recording
    THEN /\ hp_is_recording' = h
         /\ hp_status' = IF h # hp_is_recording THEN StatusAfterSetRecording(h)
                         ELSE hp_status
         /\ UNCHANGED <<mw_is_recording, mw_is_transcribing, hp_is_transcribing, pc,
                        recVars, retVars, ghostVars, silence_elapsed, workVars>>
    ELSE /\ mw_is_recording' = TRUE
         /\ hp_is_recording' = FALSE
         /\ silence_elapsed' = 0
         /\ start_ret' = "none"
         /\ UNCHANGED <<ghostVars, open_attempts>>
         /\ IF ~rec_is_recording
            THEN /\ audio_data' = <<>>
                 /\ stop_path' = "notrec"
                 /\ AfterStop(<<>>)
                 /\ UNCHANGED <<pc, recVars>>
            ELSE /\ rec_is_recording' = FALSE
                 /\ pc' = "stop_stream"
                 /\ hp_status' = StatusAfterSetRecording(FALSE)
                 /\ UNCHANGED <<rec_frames, rec_stream, audio_data, stop_path,
                                mw_is_transcribing, hp_is_transcribing, workVars>>

\* MainWindow._stop_recording with AudioRecorder.stop() up to the release of the lock.
StopRecording(h) ==
    IF ~mw_is_recording
    THEN /\ hp_is_recording' = h
         /\ hp_status' = IF h # hp_is_recording THEN StatusAfterSetRecording(h)
                         ELSE hp_status
         /\ UNCHANGED <<mw_is_recording, mw_is_transcribing, hp_is_transcribing, pc,
                        recVars, retVars, ghostVars, silence_elapsed, workVars>>
    ELSE /\ mw_is_recording' = FALSE
         /\ hp_is_recording' = FALSE
         /\ silence_elapsed' = 0
         /\ start_ret' = "none"
         /\ UNCHANGED <<ghostVars, open_attempts>>
         /\ IF ~rec_is_recording
            THEN /\ audio_data' = <<>>
                 /\ stop_path' = "notrec"
                 /\ AfterStop(<<>>)
                 /\ UNCHANGED <<pc, recVars>>
            ELSE /\ rec_is_recording' = FALSE
                 /\ pc' = "stop_stream"
                 /\ hp_status' = StatusAfterSetRecording(FALSE)
                 /\ UNCHANGED <<rec_frames, rec_stream, audio_data, stop_path,
                                mw_is_transcribing, hp_is_transcribing, workVars>>

\* The guard of MainWindow._toggle_recording.
ToggleIgnored == mw_is_transcribing

\* A button that takes clicks in every state.
MicClickNeverIgnored == FALSE

\* The guard of HomePage._on_mic_click.
MicClickIgnored == hp_is_transcribing

\* What a toggle handler notes about the state it was received in.
NoteToggle(kind) ==
    toggle_seen' = IF CtlState = "Transcribing" THEN kind ELSE "none"

\* MainWindow._on_hotkey_main_thread -> _toggle_recording.
HotkeyToggle ==
    /\ pc = "idle"
    /\ NoteToggle("hotkey")
    /\ IF ToggleIgnored
       THEN UNCHANGED <<ctlVars, pc, recVars, retVars, ghostVars, silence_elapsed,
                        workVars>>
       ELSE IF mw_is_recording
            THEN StopRecording(hp_is_recording)
            ELSE StartRecording(hp_is_recording)
    /\ delivered' = IF rec_is_recording' /\ ~rec_is_recording
                    THEN [s \in Streams |-> 0] ELSE delivered
    /\ UNCHANGED <<streams, cb, setVars, whisperVars, loaderVars, extVars, tc_queue, reset_timer>>

\* HomePage._on_mic_click -> recording_toggled -> MainWindow._on_recording_toggled.
MicClick ==
    /\ pc = "idle"
    /\ NoteToggle("click")
    /\ IF MicClickIgnored
       THEN UNCHANGED <<ctlVars, pc, recVars, retVars, ghostVars, silence_elapsed,
                        workVars>>
       ELSE IF ~hp_is_recording
            THEN StartRecording(TRUE)
            ELSE StopRecording(FALSE)
    /\ delivered' = IF rec_is_recording' /\ ~rec_is_recording
                    THEN [s \in Streams |-> 0] ELSE delivered
    /\ UNCHANGED <<streams, cb, setVars, whisperVars, loaderVars, extVars, tc_queue, reset_timer>>

\* AudioRecorder.stop(): stream.stop(), stream.close() and the drain of the
\* frames all return; then the rest of MainWindow._stop_recording.
StopStreamOk ==
    /\ pc = "stop_stream"
    /\ rec_stream # NoStream => cb[rec_stream] = NoBlock
    /\ streams' = IF rec_stream = NoStream THEN streams
                  ELSE [streams EXCEPT ![rec_stream] = "none"]
    /\ rec_stream' = NoStream
    /\ audio_data' = Concatenate(rec_frames)
    /\ rec_frames' = <<>>
    /\ stop_path' = "ok"
    /\ AfterStop(Concatenate(rec_frames))
    /\ pc' = "idle"
    /\ UNCHANGED <<mw_is_recording, hp_is_recording, rec_is_recording, delivered, cb,
                   start_ret, open_attempts, toggle_seen, ghostVars, silence_elapsed,
                   setVars,
                   whisperVars, loaderVars, extVars, tc_queue, reset_timer>>

\* AudioRecorder.stop(): stream.stop() raises (the stream keeps running or has
\* stopped) or stream.close() raises (it has stopped); stop() returns None.
StopStreamRaises ==
    /\ pc = "stop_stream"
    /\ rec_stream # NoStream
    /\ \E st \in {"active", "stopped"} :
          /\ st = "stopped" => cb[rec_stream] = NoBlock
          /\ streams' = [streams EXCEPT ![rec_stream] = st]
    /\ audio_data' = <<>>
    /\ stop_path' = "error"
    /\ AfterStop(<<>>)
    /\ pc' = "idle"
    /\ UNCHANGED <<mw_is_recording, hp_is_recording, recVars, delivered, cb,
                   start_ret, open_attempts, toggle_seen, ghostVars, silence_elapsed,
                   setVars,
                   whisperVars, loaderVars, extVars, tc_queue, reset_timer>>

(* --------------------------- SettingsManager --------------------------- *)
restOfStore == <<ctlVars, pc, recVars, sdVars, retVars, toggle_seen, ghostVars,
                 silence_elapsed, setVars, whisperVars, loaderVars, workVars,
                 tc_queue, reset_timer, hkVars, legacyVars>>

\* SettingsManager.set: self._settings[key] = value under _settings_lock.
\* The capture thread sets "hotkey", the main thread sets "auto_paste".
SetValue(t, v) ==
    /\ st_pc[t] = "idle"
    /\ st_settings' = IF t = "capture" THEN [st_settings EXCEPT !.hotkey = v]
                      ELSE [st_settings EXCEPT !.auto_paste = v]
    /\ st_pc' = [st_pc EXCEPT ![t] = "save"]
    /\ UNCHANGED <<st_file, st_payload, restOfStore>>

\* SettingsManager.save: payload = dict(self._settings) under _settings_lock.
SaveCopy(t) ==
    /\ st_pc[t] = "save"
    /\ st_payload' = [st_payload EXCEPT ![t] = st_settings]
    /\ st_pc' = [st_pc EXCEPT ![t] = "write"]
    /\ UNCHANGED <<st_settings, st_file, restOfStore>>

\* SettingsManager.save: json.dump(payload, f) into CONFIG_FILE, outside the
\* lock; set() returns.
SaveWrite(t) ==
    /\ st_pc[t] = "write"
    /\ st_file' = st_payload[t]
    /\ st_payload' = [st_payload EXCEPT ![t] = NoPayload]
    /\ st_pc' = [st_pc EXCEPT ![t] = "idle"]
    /\ UNCHANGED <<st_settings, restOfStore>>

(* ------------------------- MainWindow.force_quit ----------------------- *)
\* force_quit up to the release of the lock in AudioRecorder.stop(): the
\* recorder is stopped only if MainWindow._is_recording, and the value stop()
\* returns is dropped.
ForceQuit ==
    /\ pc = "idle"
    /\ IF mw_is_recording
       THEN IF ~rec_is_recording
            THEN /\ audio_data' = <<>>
                 /\ stop_path' = "notrec"
                 /\ pc' = "quit_unreg"
                 /\ UNCHANGED recVars
            ELSE /\ rec_is_recording' = FALSE
                 /\ pc' = "quit_stream"
                 /\ UNCHANGED <<rec_frames, rec_stream, audio_data, stop_path>>
       ELSE /\ pc' = "quit_unreg"
            /\ UNCHANGED <<recVars, audio_data, stop_path>>
    /\ UNCHANGED <<ctlVars, sdVars, start_ret, open_attempts, toggle_seen, ghostVars,
                   silence_elapsed, setVars, whisperVars, loaderVars, extVars,
                   workVars, tc_queue, reset_timer>>

\* force_quit: AudioRecorder.stop() stops and closes the stream and drops the
\* frames.
QuitStreamOk ==
    /\ pc = "quit_stream"
    /\ rec_stream # NoStream => cb[rec_stream] = NoBlock
    /\ streams' = IF rec_stream = NoStream THEN streams
                  ELSE [streams EXCEPT ![rec_stream] = "none"]
    /\ rec_stream' = NoStream
    /\ audio_data' = Concatenate(rec_frames)
    /\ rec_frames' = <<>>
    /\ stop_path' = "ok"
    /\ pc' = "quit_unreg"
    /\ UNCHANGED <<ctlVars, rec_is_recording, delivered, cb, start_ret, open_attempts,
                   toggle_seen, ghostVars, silence_elapsed, setVars, whisperVars,
                   loaderVars, extVars, workVars, tc_queue, reset_timer>>

\* force_quit: stream.stop() or stream.close() raises inside stop(), which
\* prints the error and returns None.
QuitStreamRaises ==
    /\ pc = "quit_stream"
    /\ rec_stream # NoStream
    /\ \E st \in {"active", "stopped"} :
          /\ st = "stopped" => cb[rec_stream] = NoBlock
          /\ streams' = [streams EXCEPT ![rec_stream] = st]
    /\ audio_data' = <<>>
    /\ stop_path' = "error"
    /\ pc' = "quit_unreg"
    /\ UNCHANGED <<ctlVars, recVars, delivered, cb, start_ret, open_attempts,
                   toggle_seen, ghostVars, silence_elapsed, setVars, whisperVars,
                   loaderVars, extVars, workVars, tc_queue, reset_timer>>

\* force_quit: hotkey_manager.unregister_all(), the pages' cleanup and
\* QApplication.quit().
QuitUnregisterAll ==
    /\ pc = "quit_unreg"
    /\ hk_active' = UnregisterAll([active |-> hk_active, kb |-> kb_hotkeys]).active
    /\ kb_hotkeys' = UnregisterAll([active |-> hk_active, kb |-> kb_hotkeys]).kb
    /\ pc' = "quit"
    /\ UNCHANGED <<ctlVars, recVars, sdVars, retVars, toggle_seen, ghostVars,
                   silence_elapsed, setVars, whisperVars, loaderVars, workVars,
                   tc_queue, reset_timer, legacyVars, storeVars, hk_setting, capturing, cpc,
                   capture_elapsed, capture_threads, hc_queue, hk_update, hk_fired>>

(* -------------------------- backends ----------------------------------- *)
Failure(online, err) ==
    [made |-> TRUE, raised |-> FALSE, success |-> FALSE, error |-> err,
     is_online |-> online]

Success(online) ==
    [made |-> TRUE, raised |-> FALSE, success |-> TRUE, error |-> NoError,
     is_online |-> online]

\* An exception that leaves transcribe() instead of a result.
Raised(online, err) ==
    [made |-> TRUE, raised |-> TRUE, success |-> FALSE, error |-> err,
     is_online |-> online]

\* GroqTranscriber.is_available
GroqIsAvailable == api_key

\* A transcribe() without its except clause: the exception leaves it.
GroqTranscribeUncaught(key, exists, client, out, msg) ==
    IF ~key THEN Failure(TRUE, "no_api_key")
    ELSE IF ~exists THEN Failure(TRUE, "no_audio_file")
    ELSE IF ~client THEN Raised(TRUE, "no_client")
    ELSE IF out = "raise" THEN Raised(TRUE, msg)
    ELSE Success(TRUE)

\* GroqTranscriber.transcribe: key is _api_key, exists is audio_path.exists(),
\* client is whether _get_client() gave a client, out and msg are what the
\* wave/API calls inside the try block do.
GroqTranscribe(key, exists, client, out, msg) ==
    IF ~key THEN Failure(TRUE, "no_api_key")
    ELSE IF ~exists THEN Failure(TRUE, "no_audio_file")
    ELSE IF ~client THEN Failure(TRUE, "no_client")
    ELSE IF out = "raise" THEN Failure(TRUE, msg)
    ELSE Success(TRUE)

\* WhisperTranscriber.transcribe when _load_model() returned False:
\* error = self._load_error or "Impossible de charger le modele Whisper".
WhisperLoadFailed(lerr) ==
    Failure(FALSE, IF lerr \in {NoError, ""} THEN "load_failed" ELSE lerr)

\* WhisperTranscriber.transcribe once the model is loaded.
WhisperRun(exists, out, msg) ==
    IF ~exists THEN Failure(FALSE, "no_audio_file")
    ELSE IF out = "raise" THEN Failure(FALSE, msg)
    ELSE Success(FALSE)

(* ------------------- transcription worker thread ----------------------- *)
restOfWorker == <<ctlVars, pc, recVars, sdVars, retVars, toggle_seen, ghostVars,
                  silence_elapsed, setVars, reset_timer, loaderVars, extVars>>

\* transcribe(): self._audio_recorder.save_to_file(audio_data).
WSave ==
    /\ wpc = "save"
    /\ \/ /\ wpc' = "choose"
          /\ UNCHANGED tc_queue
       \/ /\ wpc' = "none"
          /\ tc_queue' = Append(tc_queue, FALSE)
    /\ UNCHANGED <<w_choice, w_calls, w_result, w_saved, w_pasted,
                   whisperVars, restOfWorker>>

\* A choice that goes by the setting alone.
ChooseOnlineBySetting(online, available) == online

\* transcribe(): the choice of the backend.
ChooseOnline(online, available) == online /\ available

WChoose ==
    /\ wpc = "choose"
    /\ wpc' = IF ChooseOnline(use_online, GroqIsAvailable) THEN "groq" ELSE "whisper"
    /\ w_choice' = <<use_online, GroqIsAvailable>>
    /\ UNCHANGED <<w_calls, w_result, w_saved, w_pasted, whisperVars,
                   tc_queue, restOfWorker>>

\* groq_transcriber.transcribe(audio_path, language)
WGroq ==
    /\ wpc = "groq"
    /\ w_calls' = Append(w_calls, "groq")
    /\ \E exists \in BOOLEAN, client \in BOOLEAN, out \in {"ok", "raise"},
          msg \in Messages :
          w_result' = GroqTranscribe(api_key, exists, client, out, msg)
    /\ wpc' = "post"
    /\ UNCHANGED <<w_choice, w_saved, w_pasted, whisperVars, tc_queue,
                   restOfWorker>>

\* whisper_transcriber.transcribe: entry, and the two tests of _load_model.
WWhisper ==
    /\ wpc = "whisper"
    /\ w_calls' = Append(w_calls, "whisper")
    /\ IF model_loaded
       THEN /\ wpc' = "whisper_run"
            /\ UNCHANGED w_result
       ELSE IF model_loading
            THEN /\ w_result' = WhisperLoadFailed(load_error)
                 /\ wpc' = "post"
            ELSE /\ wpc' = "whisper_set"
                 /\ UNCHANGED w_result
    /\ UNCHANGED <<w_choice, w_saved, w_pasted, whisperVars, tc_queue, restOfWorker>>

\* WhisperTranscriber._load_model: self._model_loading = True
WWhisperSet ==
    /\ wpc = "whisper_set"
    /\ model_loading' = TRUE
    /\ wpc' = "whisper_load"
    /\ UNCHANGED <<w_choice, w_calls, w_result, w_saved, w_pasted, model_loaded,
                   load_error, tc_queue, restOfWorker>>

\* WhisperTranscriber._load_model: WhisperModel(...) is built, or the import
\* or the construction raises; finally _model_loading = False.
WWhisperLoad ==
    /\ wpc = "whisper_load"
    /\ model_loading' = FALSE
    /\ \/ /\ model_loaded' = TRUE
          /\ load_error' = NoError
          /\ wpc' = "whisper_run"
          /\ UNCHANGED w_result
       \/ \E e \in {"missing_dependency"} \cup Messages :
             /\ load_error' = e
             /\ w_result' = WhisperLoadFailed(e)
             /\ wpc' = "post"
             /\ UNCHANGED model_loaded
    /\ UNCHANGED <<w_choice, w_calls, w_saved, w_pasted, tc_queue,
                   restOfWorker>>

\* WhisperTranscriber.transcribe after the model is there.
WWhisperRun ==
    /\ wpc = "whisper_run"
    /\ \E exists \in BOOLEAN, out \in {"ok", "raise"}, msg \in Messages :
          w_result' = WhisperRun(exists, out, msg)
    /\ wpc' = "post"
    /\ UNCHANGED <<w_choice, w_calls, w_saved, w_pasted, whisperVars,
                   tc_queue, restOfWorker>>

\* A worker that reports successes only.
WPostSuccessOnly ==
    /\ wpc = "post"
    /\ wpc' = "none"
    /\ IF w_result.success /\ ~w_result.raised
       THEN /\ w_saved' = TRUE
            /\ w_pasted' = auto_paste
            /\ tc_queue' = Append(tc_queue, TRUE)
       ELSE UNCHANGED <<w_saved, w_pasted, tc_queue>>
    /\ UNCHANGED <<w_choice, w_calls, w_result, whisperVars, restOfWorker>>

\* A worker that clears the controller's flags itself instead of emitting.
WPostDirect ==
    /\ wpc = "post"
    /\ wpc' = "none"
    /\ w_saved' = (w_result.success /\ ~w_result.raised)
    /\ w_pasted' = (w_result.success /\ ~w_result.raised /\ auto_paste)
    /\ mw_is_transcribing' = FALSE
    /\ hp_is_transcribing' = FALSE
    /\ hp_status' = IF w_result.success /\ ~w_result.raised THEN "done" ELSE "error"
    /\ UNCHANGED <<mw_is_recording, hp_is_recording, tc_queue, w_choice, w_calls,
                   w_result, whisperVars, pc, recVars, sdVars, retVars, toggle_seen,
                   ghostVars, silence_elapsed, setVars, reset_timer, loaderVars,
                   extVars>>

\* A worker that pastes every successful result, whatever auto_paste says.
WPostPasteAlways ==
    /\ wpc = "post"
    /\ wpc' = "none"
    /\ w_saved' = (w_result.success /\ ~w_result.raised)
    /\ w_pasted' = (w_result.success /\ ~w_result.raised)
    /\ tc_queue' = Append(tc_queue, w_result.success /\ ~w_result.raised)
    /\ UNCHANGED <<w_choice, w_calls, w_result, whisperVars, restOfWorker>>

\* A worker that writes the history record whatever the result says.
WPostSaveAlways ==
    /\ wpc = "post"
    /\ wpc' = "none"
    /\ w_saved' = ~w_result.raised
    /\ w_pasted' = (w_result.success /\ ~w_result.raised /\ auto_paste)
    /\ tc_queue' = Append(tc_queue, w_result.success /\ ~w_result.raised)
    /\ UNCHANGED <<w_choice, w_calls, w_result, whisperVars, restOfWorker>>

\* transcribe(): after the backend call: history, clipboard, paste, emit.
WPost ==
    /\ wpc = "post"
    /\ wpc' = "none"
    /\ IF w_result.raised
       THEN /\ tc_queue' = Append(tc_queue, FALSE)
            /\ UNCHANGED <<w_saved, w_pasted>>
       ELSE IF w_result.success
            THEN \/ /\ w_saved' = TRUE
                    /\ w_pasted' = auto_paste
                    /\ tc_queue' = Append(tc_queue, TRUE)
                 \/ /\ tc_queue' = Append(tc_queue, FALSE)
                    /\ UNCHANGED <<w_saved, w_pasted>>
            ELSE /\ tc_queue' = Append(tc_queue, FALSE)
                 /\ UNCHANGED <<w_saved, w_pasted>>
    /\ UNCHANGED <<w_choice, w_calls, w_result, whisperVars, restOfWorker>>

Worker ==
    \/ WSave
    \/ WChoose
    \/ WGroq
    \/ WWhisper
    \/ WWhisperSet
    \/ WWhisperLoad
    \/ WWhisperRun
    \/ WPost

(* --------------------- the thread of load_async ------------------------ *)
restOfLoader == <<ctlVars, pc, recVars, sdVars, retVars, toggle_seen, ghostVars,
                  silence_elapsed, setVars, workVars, tc_queue, reset_timer, extVars>>

\* WhisperTranscriber.load_async: the thread is started.
LoadAsync ==
    /\ lpc = "none"
    /\ lpc' = "check"
    /\ UNCHANGED <<whisperVars, restOfLoader>>

\* _load(): the two tests of _load_model.
LoadCheck ==
    /\ lpc = "check"
    /\ lpc' = IF model_loaded \/ model_loading THEN "none" ELSE "set"
    /\ UNCHANGED <<whisperVars, restOfLoader>>

\* _load(): self._model_loading = True
LoadSet ==
    /\ lpc = "set"
    /\ model_loading' = TRUE
    /\ lpc' = "load"
    /\ UNCHANGED <<model_loaded, load_error, restOfLoader>>

\* _load(): WhisperModel(...) is built, or the import or the construction
\* raises; finally _model_loading = False.
LoadBuild ==
    /\ lpc = "load"
    /\ model_loading' = FALSE
    /\ \/ /\ model_loaded' = TRUE
          /\ load_error' = NoError
       \/ \E e \in {"missing_dependency"} \cup Messages :
             /\ load_error' = e
             /\ UNCHANGED model_loaded
    /\ lpc' = "none"
    /\ UNCHANGED restOfLoader

(* ---------------- main thread: results, timer, settings ---------------- *)
\* MainWindow._on_transcription_result, run for a queued _transcription_complete.
OnTranscriptionResult ==
    /\ pc = "idle"
    /\ tc_queue # <<>>
    /\ tc_queue' = Tail(tc_queue)
    /\ mw_is_transcribing' = FALSE
    /\ hp_is_transcribing' = FALSE
    /\ hp_status' = IF Head(tc_queue) THEN "done" ELSE "error"
    /\ reset_timer' = TRUE
    /\ toggle_seen' = "none"
    /\ w_choice' = <<>>
    /\ w_calls' = <<>>
    /\ w_result' = NoResult
    /\ w_saved' = FALSE
    /\ w_pasted' = FALSE
    /\ UNCHANGED <<mw_is_recording, hp_is_recording, pc, recVars, sdVars, retVars,
                   ghostVars, silence_elapsed, setVars, whisperVars, loaderVars, extVars, wpc>>

\* MainWindow._reset_transcription_status, 3 s after a result; other shots
\* of the timer may still be pending.
ResetTranscriptionStatus ==
    /\ pc = "idle"
    /\ reset_timer
    /\ reset_timer' \in BOOLEAN
    /\ hp_is_transcribing' =
          IF ~mw_is_recording /\ ~mw_is_transcribing THEN FALSE ELSE hp_is_transcribing
    /\ hp_status' =
          IF ~mw_is_recording /\ ~mw_is_transcribing THEN "prompt" ELSE hp_status
    /\ UNCHANGED <<mw_is_recording, mw_is_transcribing, hp_is_recording, pc, recVars,
                   sdVars, retVars, toggle_seen, ghostVars, silence_elapsed, setVars,
                   whisperVars, loaderVars, extVars, workVars, tc_queue>>

restOfSettings == <<ctlVars, pc, recVars, sdVars, retVars, toggle_seen, ghostVars,
                    silence_elapsed, whisperVars, workVars, tc_queue, reset_timer,
                    loaderVars, extVars>>

\* SettingsPage._on_mode_changed
OnModeChanged ==
    /\ pc = "idle"
    /\ use_online' = ~use_online
    /\ UNCHANGED <<silence_detection_enabled, auto_paste, api_key, restOfSettings>>

\* SettingsPage._on_auto_paste_changed
OnAutoPasteChanged ==
    /\ pc = "idle"
    /\ auto_paste' = ~auto_paste
    /\ UNCHANGED <<silence_detection_enabled, use_online, api_key, restOfSettings>>

\* SettingsPage._on_silence_changed
OnSilenceChanged ==
    /\ pc = "idle"
    /\ silence_detection_enabled' = ~silence_detection_enabled
    /\ UNCHANGED <<use_online, auto_paste, api_key, restOfSettings>>

\* SettingsPage._on_api_save -> GroqTranscriber.set_api_key (non-empty keys only)
OnApiSave ==
    /\ pc = "idle"
    /\ ~api_key
    /\ api_key' = TRUE
    /\ UNCHANGED <<silence_detection_enabled, use_online, auto_paste, restOfSettings>>

(* --------------------------- the microphone ---------------------------- *)
\* One more second in which the captured level stays below the threshold.
SilentSecond ==
    /\ rec_is_recording
    /\ rec_stream # NoStream
    /\ streams[rec_stream] = "active"
    /\ silence_elapsed < SilenceLimit + 2
    /\ silence_elapsed' = silence_elapsed + 1
    /\ UNCHANGED <<ctlVars, pc, recVars, sdVars, retVars, toggle_seen, ghostVars,
                   setVars, whisperVars, loaderVars, extVars, workVars, tc_queue, reset_timer>>

\* A sample above the threshold.
LoudSample ==
    /\ rec_is_recording
    /\ rec_stream # NoStream
    /\ streams[rec_stream] = "active"
    /\ silence_elapsed > 0
    /\ silence_elapsed' = 0
    /\ UNCHANGED <<ctlVars, pc, recVars, sdVars, retVars, toggle_seen, ghostVars,
                   setVars, whisperVars, loaderVars, extVars, workVars, tc_queue, reset_timer>>

(* ------------------- hotkeys: presses, capture, rebind ------------------ *)
restOfHotkeys == <<ctlVars, pc, recVars, sdVars, retVars, toggle_seen, ghostVars,
                   silence_elapsed, setVars, whisperVars, loaderVars, workVars,
                   tc_queue, reset_timer, legacyVars, storeVars>>

Manager == [active |-> hk_active, kb |-> kb_hotkeys]

\* The keyboard listener sees a registered hotkey pressed and calls
\* MainWindow._emit_hotkey_signal.
KeyPressed(k) ==
    /\ k \in kb_hotkeys
    /\ hk_fired' = [key |-> k, capturing |-> (cpc = "wait")]
    /\ UNCHANGED <<hk_active, kb_hotkeys, hk_setting, capturing, cpc,
                   capture_elapsed, capture_threads, hc_queue, hk_update, restOfHotkeys>>

\* A hotkey button that starts a capture at every click.
CaptureNeverRefused == FALSE

\* The guard of SettingsPage._on_hotkey_capture.
CaptureRefused == capturing

\* SettingsPage._on_hotkey_capture: a click on the hotkey button; the capture
\* thread is started unless one is running.
OnHotkeyCapture ==
    /\ pc = "idle"
    /\ IF CaptureRefused
       THEN UNCHANGED <<capturing, cpc, capture_elapsed, capture_threads>>
       ELSE /\ Len(hc_queue) < MaxPending
            /\ capture_threads < MaxPending
            /\ capturing' = TRUE
            /\ cpc' = "wait"
            /\ capture_elapsed' = 0
            /\ capture_threads' = capture_threads + 1
    /\ UNCHANGED <<hk_active, kb_hotkeys, hk_setting, hc_queue, hk_update, hk_fired,
                   restOfHotkeys>>

\* capture(): keyboard.read_hotkey returns k; settings.set, hotkey_changed.emit.
CaptureKey(k) ==
    /\ cpc = "wait"
    /\ hk_setting' = k
    /\ hc_queue' = Append(hc_queue, k)
    /\ capturing' = FALSE
    /\ capture_threads' = capture_threads - 1
    /\ cpc' = IF capture_threads = 1 THEN "none" ELSE "wait"
    /\ UNCHANGED <<hk_active, kb_hotkeys, capture_elapsed, hk_update, hk_fired,
                   restOfHotkeys>>

\* capture(): keyboard.read_hotkey raises; wait_for_key returns None.
CaptureFails ==
    /\ cpc = "wait"
    /\ capturing' = FALSE
    /\ capture_threads' = capture_threads - 1
    /\ cpc' = IF capture_threads = 1 THEN "none" ELSE "wait"
    /\ UNCHANGED <<hk_active, kb_hotkeys, hk_setting, capture_elapsed, hc_queue,
                   hk_update, hk_fired, restOfHotkeys>>

\* One more second passes in keyboard.read_hotkey without a key.
CaptureTick ==
    /\ cpc = "wait"
    /\ capture_elapsed < CaptureTimeout + 2
    /\ capture_elapsed' = capture_elapsed + 1
    /\ UNCHANGED <<hk_active, kb_hotkeys, hk_setting, capturing, cpc, capture_threads,
                   hc_queue, hk_update, hk_fired, restOfHotkeys>>

\* What a call update_hotkey(old, new, callback) does to the variables.
DoUpdateHotkey(old, new) ==
    /\ hk_active' = UpdateHotkey(Manager, old, new).m.active
    /\ kb_hotkeys' = UpdateHotkey(Manager, old, new).m.kb
    /\ hk_update' = [called |-> TRUE, old |-> old, new |-> new,
                      ret |-> UpdateHotkey(Manager, old, new).ret,
                      old_was_active |-> (old \in hk_active /\ old \in kb_hotkeys)]

\* MainWindow._on_hotkey_changed, run for a queued hotkey_changed(new).
OnHotkeyChanged ==
    /\ pc = "idle"
    /\ hc_queue # <<>>
    /\ hc_queue' = Tail(hc_queue)
    /\ DoUpdateHotkey(hk_setting, Head(hc_queue))
    /\ UNCHANGED <<hk_setting, capturing, cpc, capture_elapsed, capture_threads, hk_fired,
                   restOfHotkeys>>

\* A direct call hotkey_manager.update_hotkey(old, new, callback).
UpdateHotkeyCall(old, new) ==
    /\ DoUpdateHotkey(old, new)
    /\ UNCHANGED <<hk_setting, capturing, cpc, capture_elapsed, capture_threads, hc_queue, hk_fired,
                   restOfHotkeys>>

\* A direct call hotkey_manager.register(h, callback).
RegisterCall(h) ==
    /\ hk_active' = Register(Manager, h).m.active
    /\ kb_hotkeys' = Register(Manager, h).m.kb
    /\ hk_update' = NoUpdate
    /\ UNCHANGED <<hk_setting, capturing, cpc, capture_elapsed, capture_threads, hc_queue, hk_fired,
                   restOfHotkeys>>

\* A direct call hotkey_manager.unregister_all().
UnregisterAllCall ==
    /\ hk_active' = UnregisterAll(Manager).active
    /\ kb_hotkeys' = UnregisterAll(Manager).kb
    /\ hk_update' = NoUpdate
    /\ UNCHANGED <<hk_setting, capturing, cpc, capture_elapsed, capture_threads, hc_queue, hk_fired,
                   restOfHotkeys>>

\* A direct call hotkey_manager.unregister(h).
UnregisterCall(h) ==
    /\ hk_active' = Unregister(Manager, h).m.active
    /\ kb_hotkeys' = Unregister(Manager, h).m.kb
    /\ hk_update' = NoUpdate
    /\ UNCHANGED <<hk_setting, capturing, cpc, capture_elapsed, capture_threads, hc_queue, hk_fired,
                   restOfHotkeys>>

(* --------------- legacy service mode: hotkey_loop ---------------------- *)
restOfLegacy == <<ctlVars, pc, recVars, sdVars, retVars, toggle_seen, ghostVars,
                  silence_elapsed, setVars, whisperVars, loaderVars, workVars,
                  tc_queue, reset_timer, hkVars, storeVars>>

\* The user presses the hotkey down.
LegacyKeyDown ==
    /\ ~lg_key_down
    /\ lg_key_down' = TRUE
    /\ lg_toggles' = 0
    /\ UNCHANGED <<lg_prev_pressed, lg_is_rec, lg_stream, lg_frames, lg_pc,
                   lg_pasted, restOfLegacy>>

\* The user releases the hotkey.
LegacyKeyUp ==
    /\ lg_key_down
    /\ lg_key_down' = FALSE
    /\ UNCHANGED <<lg_prev_pressed, lg_is_rec, lg_stream, lg_frames, lg_pc,
                   lg_toggles, lg_pasted, restOfLegacy>>

\* hotkey_loop: rec_stream.read(CHUNK) at the end of an iteration.
LegacyCapture(rec, stream, frames) ==
    IF rec /\ stream # "none" /\ frames < MaxBlocks
    THEN lg_frames' \in {frames, frames + 1}
    ELSE lg_frames' = frames

\* An iteration that toggles at every poll that reads the key pressed.
LegacyPollLevel ==
    /\ lg_pc = "poll"
    /\ lg_key_down
    /\ lg_is_rec' = ~lg_is_rec
    /\ lg_toggles' = lg_toggles + 1
    /\ lg_prev_pressed' = TRUE
    /\ UNCHANGED <<lg_key_down, lg_stream, lg_frames, lg_pc, lg_pasted, restOfLegacy>>

\* hotkey_loop: one iteration of the while loop, up to the transcription.
LegacyPoll ==
    /\ lg_pc = "poll"
    /\ IF lg_key_down /\ ~lg_prev_pressed
       THEN /\ lg_toggles' = lg_toggles + 1
            /\ lg_is_rec' = ~lg_is_rec
            /\ IF ~lg_is_rec
               THEN \/ \E d \in {"selected", "default"} :
                          /\ lg_stream' = d
                          /\ lg_prev_pressed' = lg_key_down
                          /\ LegacyCapture(TRUE, d, 0)
                          /\ lg_pc' = "poll"
                    \/ /\ lg_pc' = "dead"
                       /\ lg_frames' = 0
                       /\ UNCHANGED <<lg_stream, lg_prev_pressed>>
               ELSE /\ lg_stream' = "none"
                    /\ lg_pc' = IF lg_frames > 0 THEN "transcribe" ELSE "poll"
                    /\ lg_prev_pressed' =
                          IF lg_frames > 0 THEN lg_prev_pressed ELSE lg_key_down
                    /\ UNCHANGED lg_frames
       ELSE /\ lg_prev_pressed' = lg_key_down
            /\ LegacyCapture(lg_is_rec, lg_stream, lg_frames)
            /\ UNCHANGED <<lg_is_rec, lg_stream, lg_pc, lg_toggles>>
    /\ UNCHANGED <<lg_key_down, lg_pasted, restOfLegacy>>

\* hotkey_loop: the transcription and paste_text return; prev_pressed = pressed.
LegacyTranscribed ==
    /\ lg_pc = "transcribe"
    /\ lg_pc' = "poll"
    /\ lg_prev_pressed' = TRUE
    /\ lg_pasted' \in BOOLEAN
    /\ UNCHANGED <<lg_key_down, lg_is_rec, lg_stream, lg_frames, lg_toggles,
                   restOfLegacy>>

(* ------------------------------ Next ----------------------------------- *)
\* The program with every handler and thread; stream.stop() and
\* stream.close() return normally.
Next ==
    \/ HotkeyToggle
    \/ MicClick
    \/ StartOpen
    \/ StartRun
    \/ StopStreamOk
    \/ \E s \in Streams : CbReceive(s)
    \/ \E s \in Streams : CbStore(s)
    \/ WSave
    \/ WChoose
    \/ WGroq
    \/ WWhisper
    \/ WWhisperSet
    \/ WWhisperLoad
    \/ WWhisperRun
    \/ WPost
    \/ OnTranscriptionResult
    \/ ResetTranscriptionStatus
    \/ OnModeChanged
    \/ OnAutoPasteChanged
    \/ OnApiSave

Spec == Init /\ [][Next]_vars

\* The threads run, and the Qt event loop delivers queued signals.
LiveSpec ==
    /\ Init
    /\ [][Next]_vars
    /\ WF_vars(Worker)
    /\ WF_vars(OnTranscriptionResult)

\* Settings as DEFAULT_SETTINGS has them, with an API key stored.
DefaultInit == Init /\ use_online /\ auto_paste /\ api_key

\* Recording sessions in which stream.stop() or stream.close() may raise.
FaultNext ==
    \/ HotkeyToggle
    \/ MicClick
    \/ StartOpen
    \/ StartRun
    \/ StopStreamOk
    \/ StopStreamRaises
    \/ \E s \in Streams : CbReceive(s)
    \/ \E s \in Streams : CbStore(s)
    \/ WSave
    \/ WChoose
    \/ WGroq
    \/ WPost
    \/ OnTranscriptionResult

FaultSpec == DefaultInit /\ [][FaultNext]_vars

\* Recording sessions with the microphone level and the silence setting.
SilenceNext ==
    \/ HotkeyToggle
    \/ StartOpen
    \/ StartRun
    \/ StopStreamOk
    \/ \E s \in Streams : CbReceive(s)
    \/ \E s \in Streams : CbStore(s)
    \/ WSave
    \/ WChoose
    \/ WGroq
    \/ WPost
    \/ OnTranscriptionResult
    \/ OnSilenceChanged
    \/ SilentSecond
    \/ LoudSample

SilenceSpec == DefaultInit /\ [][SilenceNext]_vars

\* The two backends called directly, as any caller of transcribe() may.
TranscribeCall ==
    /\ wpc \in {"none", "post"}
    /\ \E b \in {"groq", "whisper"} : wpc' = b
    /\ w_choice' = <<>>
    /\ w_calls' = <<>>
    /\ w_result' = NoResult
    /\ UNCHANGED <<w_saved, w_pasted, whisperVars, tc_queue, restOfWorker>>

BackendNext ==
    \/ TranscribeCall
    \/ WGroq
    \/ WWhisper
    \/ WWhisperSet
    \/ WWhisperLoad
    \/ WWhisperRun
    \/ OnApiSave
    \/ LoadAsync
    \/ LoadCheck
    \/ LoadSet
    \/ LoadBuild

BackendSpec == Init /\ [][BackendNext]_vars

\* The settings page rebinding the hotkey while hotkeys are pressed.
HotkeyNext ==
    \/ \E k \in Keys : KeyPressed(k)
    \/ OnHotkeyCapture
    \/ \E k \in Keys \ BadKeys : CaptureKey(k)
    \/ CaptureFails
    \/ CaptureTick
    \/ OnHotkeyChanged

HotkeySpec == DefaultInit /\ [][HotkeyNext]_vars

\* HotkeyManager called directly, with any hotkey names.
HotkeyApiNext ==
    \/ \E k \in Keys : KeyPressed(k)
    \/ \E old \in Keys, new \in Keys : UpdateHotkeyCall(old, new)
    \/ \E h \in Keys : RegisterCall(h)
    \/ \E h \in Keys : UnregisterCall(h)
    \/ UnregisterAllCall

HotkeyApiSpec == DefaultInit /\ [][HotkeyApiNext]_vars

\* The main thread with the worker, the audio callbacks and the keyboard
\* listener running beside it.
ThreadNext ==
    \/ HotkeyToggle
    \/ StartOpen
    \/ StartRun
    \/ StopStreamOk
    \/ \E s \in Streams : CbReceive(s)
    \/ \E s \in Streams : CbStore(s)
    \/ WSave
    \/ WChoose
    \/ WGroq
    \/ WPost
    \/ OnTranscriptionResult
    \/ \E k \in Keys : KeyPressed(k)

ThreadSpec == DefaultInit /\ [][ThreadNext]_vars

\* The capture thread and the main thread changing settings.
StoreNext ==
    \/ \E k \in Keys \ BadKeys : SetValue("capture", k)
    \/ \E b \in BOOLEAN : SetValue("ui", b)
    \/ \E t \in SetThreads : SaveCopy(t)
    \/ \E t \in SetThreads : SaveWrite(t)

StoreSpec == DefaultInit /\ [][StoreNext]_vars

\* Recording sessions ended by the tray menu's quit.
QuitNext ==
    \/ HotkeyToggle
    \/ StartOpen
    \/ StartRun
    \/ StopStreamOk
    \/ \E s \in Streams : CbReceive(s)
    \/ \E s \in Streams : CbStore(s)
    \/ ForceQuit
    \/ QuitStreamOk
    \/ QuitStreamRaises
    \/ QuitUnregisterAll

QuitSpec == DefaultInit /\ [][QuitNext]_vars

\* The legacy service: the hotkey and the polling loop.
LegacyNext ==
    \/ LegacyKeyDown
    \/ LegacyKeyUp
    \/ LegacyPoll
    \/ LegacyTranscribed

LegacySpec == DefaultInit /\ [][LegacyNext]_vars

TypeOK ==
    /\ ctlVars \in BOOLEAN \X BOOLEAN \X BOOLEAN \X BOOLEAN \X StatusTexts
    /\ open_attempts \in {0, 1}
    /\ pc \in {"idle", "start_open", "start_run", "stop_stream", "quit_stream",
              "quit_unreg", "quit"}
    /\ rec_stream \in Streams \cup {NoStream}
    /\ wpc \in {"none", "save", "choose", "groq", "whisper", "whisper_set", "whisper_load",
                "whisper_run", "post"}
    /\ Len(tc_queue) <= 1
    /\ silence_elapsed \in 0..(SilenceLimit + 2)

(* ------------------------------ claims --------------------------------- *)
\* C1: a toggle received while the controller is Transcribing changes
\* nothing: the controller stays Transcribing, neither MainWindow nor the
\* button nor the recorder records, and start() is not entered, so no input
\* stream is opened.
C1_ToggleWhileTranscribingIsNoOp ==
    toggle_seen # "none" =>
        /\ CtlState = "Transcribing"
        /\ hp_is_transcribing
        /\ ~mw_is_recording
        /\ ~hp_is_recording
        /\ ~rec_is_recording
        /\ pc = "idle"
        /\ rec_stream = NoStream

\* A click and a hotkey press have each met Transcribing.
C1_Witness ==
    /\ toggle_seen \in {"click", "hotkey"}
    /\ mw_is_transcribing
    /\ wpc # "none"

\* C2: at any instant at most one input stream holds the device.
C2_AtMostOneOpenStream == Cardinality(OpenStreams) <= 1

\* C3: when stop() returns, the controller goes to Transcribing and a worker
\* is started exactly when the returned buffer is non-empty; with an empty
\* buffer it is Idle, no worker runs and no backend is called.
C3_TranscribeIffAudio ==
    /\ [][(stop_path = "none" /\ stop_path' # "none") =>
            /\ mw_is_transcribing' <=> Len(audio_data') > 0
            /\ wpc' = "save" <=> Len(audio_data') > 0
            /\ (Len(audio_data') = 0) => (CtlState' = "Idle" /\ wpc' = wpc)]_vars
    /\ [](stop_path # "none" /\ Len(audio_data) = 0 =>
            CtlState = "Idle" /\ wpc = "none" /\ w_calls = <<>>)

\* stop() returned audio and the worker has been started.
C3_Witness ==
    /\ stop_path = "ok"
    /\ Len(audio_data) > 0
    /\ CtlState = "Transcribing"
    /\ wpc = "save"

\* C4: Transcribing always leads to Idle, whether the transcription succeeds
\* or fails, and no request calls a backend twice.
C4_TranscribingEnds ==
    /\ (CtlState = "Transcribing") ~> (CtlState = "Idle")
    /\ [](Len(w_calls) <= 1)

\* A failed transcription has been reported and is about to be handled.
C4_Witness ==
    /\ CtlState = "Transcribing"
    /\ tc_queue = <<FALSE>>
    /\ w_result.made
    /\ ~w_result.success
    /\ Len(w_calls) = 1

\* C5: once start() has returned False, the controller is Idle and no
\* stream is held.
C5_IdleAfterStartFailure ==
    (pc = "idle" /\ start_ret = "false") =>
        /\ CtlState = "Idle"
        /\ ~hp_is_recording
        /\ OpenStreams = {}

\* C6, as stated: the array stop() returns holds every block delivered to
\* the callback between start() and stop(), and nothing else.
C6_AllDeliveredReturned ==
    stop_path = "ok" =>
        /\ Len(audio_data) = DeliveredTotal
        /\ \A s \in Streams : \A k \in 1..delivered[s] :
              \E i \in 1..Len(audio_data) : audio_data[i] = <<s, k>>

\* C6, amended: the array stop() returns holds exactly the rows that were
\* stored under the lock while _is_recording was set, in the order the lock
\* was taken.
C6_ReturnsLockedRows == stop_path = "ok" => audio_data = locked

\* stop() returned an array while a delivered block was still on its way.
C6_Witness ==
    /\ stop_path = "ok"
    /\ Len(audio_data) >= 1
    /\ Len(audio_data) < DeliveredTotal

\* C7: with silence detection enabled, a session does not stay Recording
\* once the silence has lasted more than one tick beyond the limit.
C7_SilenceAutoStop ==
    ~(/\ silence_detection_enabled
      /\ CtlState = "Recording"
      /\ rec_is_recording
      /\ silence_elapsed > SilenceLimit + 1)

\* C8: when start() has failed or stop() has returned, every stream that
\* was opened has been closed and the recorder holds none.
C8_StreamClosedOnEveryPath ==
    (pc = "idle" /\ (start_ret = "false" \/ stop_path # "none")) =>
        /\ \A s \in Streams : streams[s] = "none"
        /\ rec_stream = NoStream

\* C9: a request that reaches a backend calls exactly one, Groq exactly when
\* use_online was set and is_available() was true at the choice; a request
\* calls no second backend after a failure.
C9_OneBackendByMode ==
    /\ Len(w_calls) <= 1
    /\ (w_calls # <<>> \/ wpc \in {"groq", "whisper"}) => Len(w_choice) = 2
    /\ w_calls # <<>> =>
          w_calls = <<IF w_choice[1] /\ w_choice[2] THEN "groq" ELSE "whisper">>
    /\ wpc = "groq" => (w_choice[1] /\ w_choice[2])
    /\ wpc = "whisper" => ~(w_choice[1] /\ w_choice[2])
    /\ wpc = "post" => Len(w_calls) = 1

\* Online mode without a key went to Whisper, and the failure was reported.
C9_Witness ==
    /\ w_choice = <<TRUE, FALSE>>
    /\ w_calls = <<"whisper">>
    /\ w_result.made
    /\ ~w_result.success
    /\ tc_queue = <<FALSE>>

\* C10, as stated: a backend never raises; a failure is a result with
\* success false and a non-empty error string.
C10_FailureHasNonEmptyError ==
    w_result.made =>
        /\ ~w_result.raised
        /\ ~w_result.success => w_result.error \notin {NoError, ""}

\* C10, amended: a backend never raises; a failure is a result with success
\* false and an error string, which is str(e) for a caught exception and
\* may be empty; the paths the backend words itself give a non-empty one.
C10_FailureHasErrorString ==
    w_result.made =>
        /\ ~w_result.raised
        /\ ~w_result.success => w_result.error # NoError
        /\ w_result.success => w_result.error = NoError
        /\ (w_result.is_online /\ ~api_key) => w_result.error = "no_api_key"

\* Groq returned a failure whose error string is empty.
C10_Witness ==
    /\ w_result.made
    /\ w_result.is_online
    /\ ~w_result.success
    /\ w_result.error = ""

\* C11: the model is never being built by two threads at once, and a
\* transcribe() that finds a load in progress waits for it: it does not
\* return the load-failure result while the other thread is still loading.
C11_LoadOnceAndWait ==
    /\ ~(wpc = "whisper_load" /\ lpc = "load")
    /\ ~(/\ wpc = "post"
         /\ lpc = "load"
         /\ ~model_loaded
         /\ w_calls = <<"whisper">>
         /\ ~w_result.success)

\* C12: after update_hotkey(old, new, callback) has returned True with old
\* different from new, new is registered and old is not: in _active_keys and
\* in the keyboard library, so a press of new fires and a press of old does not.
C12_UpdateReplacesOld ==
    (hk_update.called /\ hk_update.ret /\ hk_update.old # hk_update.new) =>
        /\ hk_update.new \in hk_active
        /\ hk_update.new \in kb_hotkeys
        /\ hk_update.old \notin hk_active
        /\ hk_update.old \notin kb_hotkeys

\* update_hotkey replaced a registered hotkey and returned True.
C12_Witness ==
    /\ hk_update.called
    /\ hk_update.ret
    /\ hk_update.old_was_active
    /\ hk_update.old # hk_update.new
    /\ kb_hotkeys = {hk_update.new}

\* C13: once every rebind made through the settings page has been handled,
\* at most one hotkey is bound, and it is the configured one.
C13_OneBindingAfterRebinds ==
    hc_queue = <<>> =>
        /\ Cardinality(kb_hotkeys) <= 1
        /\ kb_hotkeys \subseteq {hk_setting}
        /\ hk_active = kb_hotkeys

\* C14: when update_hotkey returns False, a binding that was registered
\* before the call is still registered.
C14_OldKeptOnFailure ==
    (hk_update.called /\ ~hk_update.ret /\ hk_update.old_was_active) =>
        /\ hk_update.old \in hk_active
        /\ hk_update.old \in kb_hotkeys

\* C16: no press of a bound hotkey calls _emit_hotkey_signal, and so
\* toggles the recording, while the capture thread waits for a key.
C16_NoToggleDuringCapture == ~hk_fired.capturing

\* C17: the capture thread does not wait for a key beyond its timeout:
\* _capturing_hotkey is not still set more than one tick after it.
C17_CaptureTimesOut ==
    ~(/\ capturing
      /\ cpc = "wait"
      /\ capture_elapsed > CaptureTimeout + 1)

\* C15, as stated: every physical press of the hotkey toggles the
\* recording exactly once: when a key the loop has read as pressed is
\* released, one toggle has happened since it went down.
C15_ExactlyOncePerPress ==
    [][(lg_key_down /\ ~lg_key_down' /\ lg_prev_pressed /\ lg_pc = "poll")
          => lg_toggles = 1]_vars

\* C15, amended: a physical press toggles the recording at most once, however
\* long it is held, and a toggle happens only on a poll that reads the key
\* pressed after the previous poll read it released.
C15_AtMostOncePerPress ==
    /\ [](lg_toggles <= 1)
    /\ [][(lg_is_rec' # lg_is_rec) =>
            (lg_pc = "poll" /\ lg_key_down /\ ~lg_prev_pressed)]_vars

\* The key is still held after its press has toggled and polls have gone by.
C15_Witness ==
    /\ lg_key_down
    /\ lg_prev_pressed
    /\ lg_toggles = 1
    /\ lg_is_rec
    /\ lg_frames = MaxBlocks

\* C18: when sd.InputStream(...) raises for the selected device, start() opens
\* the default device once more before it gives up, so a start() that ends on
\* a failed open has made two attempts.
C18_RetriesOnDefaultDevice ==
    [][(pc = "start_open" /\ pc' = "idle") => open_attempts' = 2]_vars

\* C19: when _stop_recording ends with no audio (the stream was stopped and
\* closed with no frame stored), the home page shows a notice of it: its status label holds a
\* text other than the prompt, the recording and transcribing texts and the
\* success text.
C19_EmptyStopNotifies ==
    [][(/\ mw_is_recording \/ pc = "stop_stream"
        /\ pc' = "idle"
        /\ ~mw_is_recording'
        /\ stop_path' = "ok"
        /\ Len(audio_data') = 0)
          => hp_status' \notin {"prompt", "recording", "transcribing", "done"}]_vars

\* C20: storage.save is called only for a result with success = true: a
\* history record is written only by the worker's step after the backend
\* call, only when the backend returned a successful result, and only for a
\* recording that had audio; a backend failure, a failure to save the audio
\* file or an empty recording writes none.
C20_SaveOnlyOnSuccess ==
    /\ [](w_saved => (w_result.made /\ w_result.success /\ ~w_result.raised
                        /\ Len(audio_data) > 0))
    /\ [][(w_saved' /\ ~w_saved) => (wpc = "post" /\ w_result.success)]_vars

\* A successful transcription has written its history record and queued its
\* result.
C20_Witness ==
    /\ w_saved
    /\ w_result.success
    /\ wpc = "none"
    /\ tc_queue = <<TRUE>>

\* C21: the paste keystroke is sent only after a successful transcription and
\* only if auto_paste is enabled when the worker reads it: ctrl+v is sent
\* only by the worker's step after the backend call, for a successful result,
\* with the setting on at that step; a failed result never has a paste.
C21_PasteOnlyOnSuccessAndSetting ==
    /\ [](w_pasted => (w_result.made /\ w_result.success /\ ~w_result.raised))
    /\ [][(w_pasted' /\ ~w_pasted) =>
            (wpc = "post" /\ w_result.success /\ ~w_result.raised /\ auto_paste)]_vars
    /\ [][(wpc = "post" /\ wpc' = "none" /\ ~auto_paste) => ~w_pasted']_vars

\* A successful transcription was saved and pasted, and the setting has been
\* switched off since.
C21_Witness ==
    /\ w_pasted
    /\ w_saved
    /\ wpc = "none"
    /\ ~auto_paste

\* C22: force_quit stops a capture in progress and discards its buffer, then
\* unregisters all hotkeys, then releases the audio device, and a failing
\* step does not keep the later ones from running: the stop of force_quit
\* always leaves the recorder's stream closed and its frames dropped, the
\* device is released only once no hotkey is registered, and the quit ends
\* with no hotkey registered.
C22_QuitStopsUnregistersReleases ==
    /\ [][(pc = "quit_stream" /\ pc' = "quit_unreg" /\ rec_stream # NoStream)
            => (streams'[rec_stream] = "none" /\ rec_frames' = <<>>)]_vars
    /\ [][(pc = "quit_stream" /\ OpenStreams' # OpenStreams) => kb_hotkeys = {}]_vars
    /\ [](pc = "quit" => kb_hotkeys = {})

\* C23: MainWindow._is_recording, MainWindow._is_transcribing and the home
\* page's state are written on the main thread only: no step of the
\* transcription worker, of an audio callback or of the keyboard listener
\* changes them, and the worker ends by queueing exactly one
\* _transcription_complete emission.
C23_StateWrittenOnMainThreadOnly ==
    /\ [][(\/ Worker
           \/ \E s \in Streams : CbReceive(s) \/ CbStore(s)
           \/ \E k \in Keys : KeyPressed(k)) => UNCHANGED ctlVars]_vars
    /\ [][(wpc # "none" /\ wpc' = "none") => tc_queue' = Append(tc_queue, Head(tc_queue'))]_vars

\* The worker has ended and its result waits in the queue, the audio callback
\* stored blocks and the listener saw the hotkey, while the controller still
\* shows Transcribing.
C23_Witness ==
    /\ wpc = "none"
    /\ tc_queue # <<>>
    /\ mw_is_transcribing
    /\ hp_is_transcribing
    /\ Len(audio_data) > 0
    /\ hk_fired.key # NoKey

\* C24: in the legacy loop no failure leaves recording stuck on: the loop
\* never ends with is_rec still true, so a later press can always switch the
\* recording off again.
C24_LegacyLoopSurvivesFailures == ~(lg_pc = "dead" /\ lg_is_rec)

\* C25: MainWindow._is_recording and MainWindow._is_transcribing are never
\* both true, whatever the order of hotkey toggles, mic clicks, transcription
\* results and status-reset timers.
C25_NeverRecordingAndTranscribing == ~(mw_is_recording /\ mw_is_transcribing)

\* A second session is being recorded after a result was delivered, with a
\* status-reset timer of the first still pending.
C25_Witness ==
    /\ mw_is_recording
    /\ ~mw_is_transcribing
    /\ reset_timer
    /\ rec_frames # <<>>

\* C26: the home page mirrors the controller: whenever the main thread is
\* back in the event loop, HomePage._is_recording equals
\* MainWindow._is_recording and HomePage._is_transcribing equals
\* MainWindow._is_transcribing, for sessions driven by clicks and by the hotkey.
C26_MirrorAgrees ==
    pc = "idle" => (/\ hp_is_recording = mw_is_recording
                    /\ hp_is_transcribing = mw_is_transcribing)

\* A mic click arrived while a transcription was running, and both pairs of
\* flags still agree.
C26_Witness ==
    /\ pc = "idle"
    /\ toggle_seen = "click"
    /\ mw_is_transcribing
    /\ hp_is_transcribing
    /\ ~hp_is_recording

\* C27: settings persistence loses no update: once every
\* SettingsManager.set call has returned, the table in the JSON file is the
\* table in memory.
C27_FileMatchesMemory ==
    (\A t \in SetThreads : st_pc[t] = "idle") => st_file = st_settings

C29_OneCaptureAtATime ==
    /\ [](capture_threads <= 1)
    /\ [](capture_threads = 0 => ~capturing)
    /\ [][capture_threads' < capture_threads => ~capturing']_vars
    /\ [][capture_threads' > capture_threads => ~capturing]_vars

\* A capture has waited past its timeout with the flag set, after an earlier
\* capture ended with a key.
C29_Witness ==
    /\ capturing
    /\ capture_threads = 1
    /\ capture_elapsed > CaptureTimeout
    /\ hc_queue # <<>>

\* C30: recording sessions are isolated: the buffer AudioRecorder.stop()
\* returns holds only blocks delivered by the stream this session's start()
\* opened, also after an earlier start() or stop() ended with an error.
C30_BufferFromOwnStreamOnly ==
    [][(pc = "stop_stream" /\ stop_path' = "ok") =>
          \A i \in 1..Len(audio_data') : audio_data'[i][1] = rec_stream]_vars

====
